---- MODULE Spec2Model ----
(***************************************************************************)
(* A model of the DNS-over-HTTPS client of go-doh-client: the DoH struct   *)
(* (provider list, cache pointer, stats map, stop channel), the periodic   *)
(* reset goroutine started by New, EnableCache, Close, Query/fastQuery,    *)
(* the goQuery goroutines of a race, collectResponses, and the TTL cache.  *)
(*                                                                         *)
(* Every goroutine is a process whose position is a variable; an action is *)
(* one atomic step of one goroutine (a critical section under the client's *)
(* RWMutex, a channel rendezvous, a return of the transport).              *)
(***************************************************************************)
EXTENDS Integers, Sequences, FiniteSets, TLC

\* ---------------------------------------------------------------- bounds
\* Number of configured provider URLs (len(c.urls)); indices 0..NumProviders-1.
NumProviders == 2
\* Number of Query calls made on the client (each may overlap the others).
MaxQueries == 2
\* Number of events the environment of the client produces in one run:
\* a second passing, a tick of the 5 s ticker, a cancellation by a caller, a
\* call of EnableCache or of Close.
MaxEvents == 2

Providers == 0 .. (NumProviders - 1)
Queries == 1 .. MaxQueries

\* ------------------------------------------------------------- the inputs
\* Strings are sequences of characters, so that trimming is computed.
Space == " "

\* A Query's (domain, type, subnet); s is <<>> when no ECS argument is given
\* (or it is the empty string).
Requests ==
    { [d |-> <<"a">>, t |-> <<"A">>, s |-> <<>>],
      [d |-> <<"b">>, t |-> <<"A">>, s |-> <<"1", " ">>] }

\* The steps, in seconds, by which the clock advances.
TickSteps == {1, 2}

\* The requests of the runs that look at the answers and at the cache keys:
\* a name in two spellings that differ by a trailing space, two requests
\* whose concatenations d + t agree ("a" + "AA", "aA" + "A"), and a name
\* the zone does not hold.
WideRequests ==
    { [d |-> <<"a">>, t |-> <<"A">>, s |-> <<>>],
      [d |-> <<"a", " ">>, t |-> <<"A">>, s |-> <<>>],
      [d |-> <<"a">>, t |-> <<"A", "A">>, s |-> <<>>],
      [d |-> <<"a", "A">>, t |-> <<"A">>, s |-> <<>>],
      [d |-> <<"n">>, t |-> <<"A">>, s |-> <<>>] }

\* The requests of the runs that look at the lifetime of the entries: a
\* name whose record has a TTL of 1 s, one whose record has a TTL of 0, one
\* whose record carries a negative TTL, and one with no record.
TtlRequests ==
    { [d |-> <<"a">>, t |-> <<"A">>, s |-> <<>>],
      [d |-> <<"z">>, t |-> <<"A">>, s |-> <<>>],
      [d |-> <<"m">>, t |-> <<"A">>, s |-> <<>>],
      [d |-> <<"b">>, t |-> <<"A">>, s |-> <<>>] }

\* ------------------------------------------------------------------ state
VARIABLES
    now,          \* time.Now(), in seconds
    up,           \* the environment: whether each provider answers
    events,       \* the environment: the events it has produced
    cache,        \* c.cache: <<>> is nil, <<items>> a *cache with its items map
    stats,        \* c.stats: provider index -> [failureCount, attemptCount, failureRate]
    resetter,     \* the goroutine of New: "running", "locking", "locked" or "stopped"
    closing,      \* Close calls blocked on c.stopc <- true
    closed,       \* Close calls that have returned
    qpc,          \* position of each Query call ("panicked": ended by a panic)
    req,          \* its (d, t, s)
    cancelled,    \* whether the caller has cancelled its ctx
    urlsToQuery,  \* the provider indices Query selected
    seen,         \* the stats Query read under RLock (kept while qpc = "selected")
    att,          \* the goQuery goroutine of each (query, provider)
    recv,         \* collectResponses: provider indices in order of arrival on r
    firstError,   \* collectResponses: firstError, <<>> is nil
    ret,          \* what Query returned: [rsp, err], each <<>> for nil
    src,          \* how Query returned: "none", "cache" or "race"
    stored        \* <<expiration>> of the entry this Query put in the current store

gvars == <<now, up, events, cache, stats, resetter, closing, closed>>
qvars == <<qpc, req, cancelled, urlsToQuery, seen, att, recv, firstError, ret, src, stored>>
vars == <<gvars, qvars>>

\* ---------------------------------------------------------------- helpers
EmptyMap == [k \in {} |-> 0]

RECURSIVE TrimLeft(_)
TrimLeft(s) == IF s # <<>> /\ Head(s) = Space THEN TrimLeft(Tail(s)) ELSE s

RECURSIVE TrimRight(_)
TrimRight(s) ==
    IF s # <<>> /\ s[Len(s)] = Space THEN TrimRight(SubSeq(s, 1, Len(s) - 1)) ELSE s

\* strings.TrimSpace
TrimSpace(s) == TrimRight(TrimLeft(s))

\* The DNS data the providers serve, by the name buildRequest puts in the
\* URL, which is the trimmed domain (Punycode): the TTLs of the answers to a
\* request. Domain "a" has one record, of TTL 1 s; "z" has one of TTL 0; the
\* JSON answer for "m" carries a TTL of -1 (Answer.TTL is an int); the
\* others have none (an empty Answer).
ZoneAnswer(r) ==
    IF TrimSpace(r.d) = <<"a">> THEN <<1>>
    ELSE IF TrimSpace(r.d) = <<"z">> THEN <<0>>
    ELSE IF TrimSpace(r.d) = <<"m">> THEN <<-1>>
    ELSE <<>>

\* The Status of the DNS response: 3 (NXDOMAIN) for the name "n", which is
\* not in the zone, and 0 for the others.
ZoneStatus(r) == IF TrimSpace(r.d) = <<"n">> THEN 3 ELSE 0

\* The cache key of checkCache and updateCache: the SHA-1 of d + t + ss,
\* where ss is the trimmed subnet. The hash is taken as injective, so the
\* key is the hashed string itself.
CacheKey(r) == r.d \o r.t \o (IF r.s # <<>> THEN TrimSpace(r.s) ELSE <<>>)

RECURSIVE Gcd(_, _)
Gcd(a, b) == IF b = 0 THEN a ELSE Gcd(b, a % b)

\* float64(failures) / float64(attempts) * 100, kept as the exact fraction
\* <<numerator, denominator>> in lowest terms (equal fractions are equal floats).
Rate(f, a) == LET g == Gcd(f * 100, a) IN <<(f * 100) \div g, a \div g>>

\* rate < minRate on two such fractions
RateLess(r1, r2) == r1[1] * r2[2] < r2[1] * r1[2]

\* The error values. An error is told from the others by its kind and the
\* provider URL that fmt.Errorf puts in its text.
TransportErr(p) == [kind |-> "transport", provider |-> p]
CanceledErr(p) == [kind |-> "canceled", provider |-> p]
\* doRequest, line 364: the DNS response carries a nonzero Status.
DnsErr(p) == [kind |-> "dns", provider |-> p]

\* The *Response doRequest builds for query q at provider p; ptr is the
\* identity of the allocation.
NewResponse(q, p) ==
    [ptr |-> <<q, p>>, Status |-> ZoneStatus(req[q]), Question |-> req[q],
     Answer |-> ZoneAnswer(req[q]), Provider |-> p]

\* The context ctxs of fastQuery is done once the caller's ctx is cancelled
\* or fastQuery has returned or panicked (defer cancels()).
CtxDone(q) == cancelled[q] \/ qpc[q] \in {"done", "panicked"}

NoRequest == [d |-> <<>>, t |-> <<>>, s |-> <<>>]

NoAttempt == [pc |-> "none", rsp |-> <<>>, err |-> <<>>]

\* ------------------------------------------------------------------- cache
\* A mutant of CacheGet: an entry is expired from its expiration instant on
\* (>= for >).
CacheGetInclusive(items, key) ==
    IF key \notin DOMAIN items \/ now >= items[key].expiration
    THEN <<>>
    ELSE <<items[key].value>>

\* A mutant of CacheGet: the expiration is not looked at.
CacheGetNoExpiry(items, key) ==
    IF key \notin DOMAIN items THEN <<>> ELSE <<items[key].value>>

\* cache.Get: the value, or <<>> (nil) when the key is missing or expired.
CacheGet(items, key) ==
    IF key \notin DOMAIN items \/ now > items[key].expiration
    THEN <<>>
    ELSE <<items[key].value>>

\* cache.Set: the items map after the call.
CacheSet(items, key, value, ttl) ==
    [k \in DOMAIN items \cup {key} |->
        IF k = key THEN [value |-> value, expiration |-> now + ttl] ELSE items[k]]

\* The ttl updateCache passes to Set.
CacheTTL(rsp) == IF Len(rsp.Answer) > 0 THEN rsp.Answer[1] ELSE 30

\* --------------------------------------------------------------- the start
Init ==
    /\ now = 0
    /\ up \in [Providers -> BOOLEAN]
    /\ events = 0
    /\ cache = <<>>
    /\ stats = EmptyMap
    /\ resetter = "running"
    /\ closing = 0
    /\ closed = 0
    /\ qpc = [q \in Queries |-> "idle"]
    /\ req = [q \in Queries |-> NoRequest]
    /\ cancelled = [q \in Queries |-> FALSE]
    /\ urlsToQuery = [q \in Queries |-> {}]
    /\ seen = [q \in Queries |-> EmptyMap]
    /\ att = [q \in Queries |-> [p \in Providers |-> NoAttempt]]
    /\ recv = [q \in Queries |-> <<>>]
    /\ firstError = [q \in Queries |-> <<>>]
    /\ ret = [q \in Queries |-> [rsp |-> <<>>, err |-> <<>>]]
    /\ src = [q \in Queries |-> "none"]
    /\ stored = [q \in Queries |-> <<>>]

\* ------------------------------------------------------------ environment
\* Time passes: d seconds.
Tick(d) ==
    /\ events < MaxEvents
    /\ events' = events + 1
    /\ now' = now + d
    /\ UNCHANGED <<up, cache, stats, resetter, closing, closed, qvars>>

\* The caller cancels the ctx it gave to Query.
CallerCancel(q) ==
    /\ qpc[q] \in {"selected", "collecting"}
    /\ ~cancelled[q]
    /\ events < MaxEvents
    /\ events' = events + 1
    /\ cancelled' = [cancelled EXCEPT ![q] = TRUE]
    /\ UNCHANGED <<now, up, cache, stats, resetter, closing, closed, qpc, req, urlsToQuery, seen, att, recv, firstError, ret, src, stored>>

\* ------------------------------------------------- the goroutine of New
\* case <-t.C: the ticker fired; all records are deleted under the lock.
ResetStats ==
    /\ resetter = "running"
    /\ events < MaxEvents
    /\ events' = events + 1
    /\ stats' = EmptyMap
    /\ UNCHANGED <<now, up, cache, resetter, closing, closed, qvars>>

\* Close: c.stopc <- true blocks until the goroutine of New receives.
CloseCall ==
    /\ events < MaxEvents
    /\ events' = events + 1
    /\ closing' = closing + 1
    /\ UNCHANGED <<now, up, cache, stats, resetter, closed, qvars>>

\* A mutant of StopReceived: the receive does not end the goroutine (a break
\* that leaves the select, not the loop).
StopReceivedKeepsRunning ==
    /\ resetter = "running"
    /\ closing > 0
    /\ closing' = closing - 1
    /\ closed' = closed + 1
    /\ UNCHANGED <<now, up, events, cache, stats, resetter, qvars>>

\* case <-c.stopc: the rendezvous. The goroutine returns; the Close that sent
\* goes on to c.cache.Close(), a no-op, and returns.
StopReceived ==
    /\ resetter = "running"
    /\ closing > 0
    /\ resetter' = "stopped"
    /\ closing' = closing - 1
    /\ closed' = closed + 1
    /\ UNCHANGED <<now, up, events, cache, stats, qvars>>

\* EnableCache(enable): a fresh store, or nil. The field is written without a
\* lock; here it is called while no Query is between its calls of fastQuery
\* and its return, as a race-free caller does.
EnableCache(enable) ==
    /\ \A q \in Queries : qpc[q] \in {"idle", "done"}
    /\ events < MaxEvents
    /\ events' = events + 1
    /\ cache' = IF enable THEN <<EmptyMap>> ELSE <<>>
    /\ stored' = [q \in Queries |-> <<>>]
    /\ UNCHANGED <<now, up, stats, resetter, closing, closed,
                   qpc, req, cancelled, urlsToQuery, seen, att, recv, firstError, ret, src>>

\* ------------------------------------------------------------------ Query
\* A mutant of MinRateIndices: the comparison is turned around (> for <).
MaxRateIndices(st) ==
    {k \in DOMAIN st : \A j \in DOMAIN st : ~RateLess(st[k].failureRate, st[j].failureRate)}

\* The indices k of the records whose rate no other record undercuts: the
\* loop keeps the first such record it meets, and the iteration order of a
\* Go map is not fixed.
MinRateIndices(st) ==
    {k \in DOMAIN st : \A j \in DOMAIN st : ~RateLess(st[j].failureRate, st[k].failureRate)}

\* A mutant of Selections: with no record, only the first url is taken.
SelectionsFirstOnly(st) ==
    IF DOMAIN st # {}
    THEN {{k} : k \in MinRateIndices(st)}
    ELSE {{0}}

\* The sets of indices Query may put in urlsToQuery when it reads st.
Selections(st) ==
    IF DOMAIN st # {}
    THEN {{k} : k \in MinRateIndices(st)}
    ELSE {Providers}

\* Query, lines 160-184: the call with arguments r, and the selection under
\* RLock. The calls are numbered in the order in which they are made.
Select(q, r) ==
    /\ qpc[q] = "idle"
    /\ \A o \in Queries : o < q => qpc[o] # "idle"
    /\ req' = [req EXCEPT ![q] = r]
    /\ \E sel \in Selections(stats) :
          urlsToQuery' = [urlsToQuery EXCEPT ![q] = sel]
    /\ seen' = [seen EXCEPT ![q] = stats]
    /\ qpc' = [qpc EXCEPT ![q] = "selected"]
    /\ UNCHANGED <<gvars, cancelled, att, recv, firstError, ret, src, stored>>

\* fastQuery, lines 190-191, called by itself with the urls map its caller
\* built: any set of provider indices, the empty one included. No lock is
\* taken and c.stats is not read.
FastQuery(q, r, urls) ==
    /\ qpc[q] = "idle"
    /\ \A o \in Queries : o < q => qpc[o] # "idle"
    /\ req' = [req EXCEPT ![q] = r]
    /\ urlsToQuery' = [urlsToQuery EXCEPT ![q] = urls]
    /\ qpc' = [qpc EXCEPT ![q] = "selected"]
    /\ UNCHANGED <<gvars, cancelled, seen, att, recv, firstError, ret, src, stored>>

\* checkCache: the cached *Response for r, or <<>> when Get returns nil.
\* fastQuery calls it only when c.cache is not nil.
CheckCache(r) == IF cache = <<>> THEN <<>> ELSE CacheGet(cache[1], CacheKey(r))

\* A mutant of CacheHit: the goroutines are started before the cache is
\* looked at.
CacheHitAfterLaunch(q) ==
    /\ qpc[q] = "selected"
    /\ CheckCache(req[q]) # <<>>
    /\ ret' = [ret EXCEPT ![q] = [rsp |-> CheckCache(req[q]), err |-> <<>>]]
    /\ src' = [src EXCEPT ![q] = "cache"]
    /\ qpc' = [qpc EXCEPT ![q] = "done"]
    /\ seen' = [seen EXCEPT ![q] = EmptyMap]
    /\ att' = [att EXCEPT ![q] =
                 [p \in Providers |->
                    IF p \in urlsToQuery[q] THEN [NoAttempt EXCEPT !.pc = "inflight"]
                    ELSE NoAttempt]]
    /\ UNCHANGED <<gvars, req, cancelled, urlsToQuery, recv, firstError, stored>>

\* fastQuery, lines 192-195: the cache holds a live entry; return it.
CacheHit(q) ==
    /\ qpc[q] = "selected"
    /\ CheckCache(req[q]) # <<>>
    /\ ret' = [ret EXCEPT ![q] = [rsp |-> CheckCache(req[q]), err |-> <<>>]]
    /\ src' = [src EXCEPT ![q] = "cache"]
    /\ qpc' = [qpc EXCEPT ![q] = "done"]
    /\ seen' = [seen EXCEPT ![q] = EmptyMap]
    /\ UNCHANGED <<gvars, req, cancelled, urlsToQuery, att, recv, firstError, stored>>

\* fastQuery, lines 192-204: no cache or a miss; one goQuery per selected url.
Launch(q) ==
    /\ qpc[q] = "selected"
    /\ CheckCache(req[q]) = <<>>
    /\ att' = [att EXCEPT ![q] =
                 [p \in Providers |->
                    IF p \in urlsToQuery[q] THEN [NoAttempt EXCEPT !.pc = "inflight"]
                    ELSE NoAttempt]]
    /\ qpc' = [qpc EXCEPT ![q] = "collecting"]
    /\ seen' = [seen EXCEPT ![q] = EmptyMap]
    /\ UNCHANGED <<gvars, req, cancelled, urlsToQuery, recv, firstError, ret, src, stored>>

\* ---------------------------------------------------------------- goQuery
\* A mutant of QueryResult: the request is built without ctx, so the
\* cancellation does not reach the transport.
QueryResultIgnoresCtx(q, p) ==
    IF ~up[p] THEN [rsp |-> <<>>, err |-> <<TransportErr(p)>>]
    ELSE IF ZoneStatus(req[q]) # 0
         THEN [rsp |-> <<NewResponse(q, p)>>, err |-> <<DnsErr(p)>>]
         ELSE [rsp |-> <<NewResponse(q, p)>>, err |-> <<>>]

\* What c.query returns for query q at provider p: the request carries ctxs,
\* and the transport honours it. A response that parses is returned with an
\* error when its Status is not 0 (doRequest, lines 363-365).
QueryResult(q, p) ==
    IF CtxDone(q) THEN [rsp |-> <<>>, err |-> <<CanceledErr(p)>>]
    ELSE IF ~up[p] THEN [rsp |-> <<>>, err |-> <<TransportErr(p)>>]
    ELSE IF ZoneStatus(req[q]) # 0
         THEN [rsp |-> <<NewResponse(q, p)>>, err |-> <<DnsErr(p)>>]
         ELSE [rsp |-> <<NewResponse(q, p)>>, err |-> <<>>]

\* goQuery, line 230: c.query returns.
AttemptReturn(q, p) ==
    /\ att[q][p].pc = "inflight"
    /\ att' = [att EXCEPT ![q][p] =
                 [pc |-> "returned", rsp |-> QueryResult(q, p).rsp, err |-> QueryResult(q, p).err]]
    /\ UNCHANGED <<gvars, qpc, req, cancelled, urlsToQuery, seen, recv, firstError, ret, src, stored>>

\* A mutant of RecordAttempt: the rate is computed again only when the
\* attempt failed, so a success leaves the rate the record had.
RecordAttemptStaleRate(st, k, failed) ==
    LET old == IF k \in DOMAIN st THEN st[k]
               ELSE [failureCount |-> 0, attemptCount |-> 0, failureRate |-> <<100, 1>>]
        a == old.attemptCount + 1
        f == IF failed THEN old.failureCount + 1 ELSE old.failureCount
    IN [j \in DOMAIN st \cup {k} |->
          IF j = k
          THEN [failureCount |-> f, attemptCount |-> a,
                failureRate |-> IF failed THEN Rate(f, a) ELSE old.failureRate]
          ELSE st[j]]

\* goQuery, lines 232-239: the record of provider k after one more attempt.
RecordAttempt(st, k, failed) ==
    LET old == IF k \in DOMAIN st THEN st[k]
               ELSE [failureCount |-> 0, attemptCount |-> 0, failureRate |-> <<100, 1>>]
        a == old.attemptCount + 1
        f == IF failed THEN old.failureCount + 1 ELSE old.failureCount
    IN [j \in DOMAIN st \cup {k} |->
          IF j = k THEN [failureCount |-> f, attemptCount |-> a, failureRate |-> Rate(f, a)]
          ELSE st[j]]

\* A mutant of AttemptRecord: an attempt that ended with an error after the
\* race was over (its Query has returned) is not recorded.
AttemptRecordSkipsLosers(q, p) ==
    /\ att[q][p].pc = "returned"
    /\ stats' = IF qpc[q] = "done" /\ att[q][p].err # <<>>
                THEN stats
                ELSE RecordAttempt(stats, p, att[q][p].err # <<>>)
    /\ att' = [att EXCEPT ![q][p].pc = "sending"]
    /\ UNCHANGED <<now, up, events, cache, resetter, closing, closed,
                   qpc, req, cancelled, urlsToQuery, seen, recv, firstError, ret, src, stored>>

\* goQuery, lines 231-246: the record is updated under the lock, and
\* the goroutine goes on to send its result on r.
AttemptRecord(q, p) ==
    /\ att[q][p].pc = "returned"
    /\ stats' = RecordAttempt(stats, p, att[q][p].err # <<>>)
    /\ att' = [att EXCEPT ![q][p].pc = "sending"]
    /\ UNCHANGED <<now, up, events, cache, resetter, closing, closed,
                   qpc, req, cancelled, urlsToQuery, seen, recv, firstError, ret, src, stored>>

\* ------------------------------------------------------- collectResponses
\* goQuery, lines 242-246: the value sent on r, the *Response when err is
\* nil and the error otherwise.
ChanValue(a) ==
    IF a.err = <<>> THEN [rsp |-> a.rsp, err |-> <<>>] ELSE [rsp |-> <<>>, err |-> a.err]

\* A mutant of KeepFirstError: every error overwrites the one kept.
KeepLastError(first, err) == err

\* collectResponses, lines 257-259: the error kept after err arrives.
KeepFirstError(first, err) == IF first = <<>> THEN err ELSE first

\* The error of line 271, returned when the loop ends with no error kept.
AllFailedErr(totalUrls) == [kind |-> "all-failed", provider |-> totalUrls]

\* A mutant of CollectStep: a *Response does not end the loop; it is only
\* returned when it is the last value to arrive.
CollectStepWaitsForAll(total, first, v, totalUrls) ==
    LET kept == IF v.rsp # <<>> THEN first ELSE KeepFirstError(first, v.err)
    IN IF total + 1 >= totalUrls
       THEN IF v.rsp # <<>>
            THEN [done |-> TRUE, rsp |-> v.rsp, err |-> <<>>, firstError |-> kept]
            ELSE [done |-> TRUE, rsp |-> <<>>, err |-> kept, firstError |-> kept]
       ELSE [done |-> FALSE, rsp |-> <<>>, err |-> <<>>, firstError |-> kept]

\* collectResponses, lines 252-271: one turn of the loop, on the value v
\* that arrives after total others, and what the function returns when the
\* turn ends the loop. A *Response is returned at once; an error is kept if
\* it is the first, and the loop ends when total reaches totalUrls.
CollectStep(total, first, v, totalUrls) ==
    IF v.rsp # <<>>
    THEN [done |-> TRUE, rsp |-> v.rsp, err |-> <<>>, firstError |-> first]
    ELSE LET kept == KeepFirstError(first, v.err)
         IN IF total + 1 >= totalUrls
            THEN [done |-> TRUE, rsp |-> <<>>,
                  err |-> IF kept # <<>> THEN kept ELSE <<AllFailedErr(totalUrls)>>,
                  firstError |-> kept]
            ELSE [done |-> FALSE, rsp |-> <<>>, err |-> <<>>, firstError |-> kept]

\* fastQuery, lines 207-209, and updateCache: after a race that returned rsp
\* with a nil error, the response is stored if there is a cache.
UpdateCache(q, rsp) ==
    IF cache # <<>>
    THEN /\ cache' = <<CacheSet(cache[1], CacheKey(req[q]), rsp, CacheTTL(rsp))>>
         /\ stored' = [stored EXCEPT ![q] = <<now + CacheTTL(rsp)>>]
    ELSE UNCHANGED <<cache, stored>>

\* collectResponses receives the value of the goQuery of p (any goroutine
\* that has reached its send may be the next one received); when that ends
\* the loop, fastQuery stores a success and returns, which cancels ctxs.
Collect(q, p) ==
    /\ qpc[q] = "collecting"
    /\ att[q][p].pc = "sending"
    /\ LET step == CollectStep(Len(recv[q]), firstError[q], ChanValue(att[q][p]),
                               Cardinality(urlsToQuery[q]))
       IN /\ firstError' = [firstError EXCEPT ![q] = step.firstError]
          /\ IF step.done
             THEN /\ ret' = [ret EXCEPT ![q] = [rsp |-> step.rsp, err |-> step.err]]
                  /\ src' = [src EXCEPT ![q] = "race"]
                  /\ qpc' = [qpc EXCEPT ![q] = "done"]
                  /\ IF step.err = <<>>
                     THEN UpdateCache(q, step.rsp[1])
                     ELSE UNCHANGED <<cache, stored>>
             ELSE UNCHANGED <<ret, src, qpc, cache, stored>>
    /\ att' = [att EXCEPT ![q][p].pc = "done"]
    /\ recv' = [recv EXCEPT ![q] = Append(@, p)]
    /\ UNCHANGED <<now, up, events, stats, resetter, closing, closed,
                   req, cancelled, urlsToQuery, seen>>

\* ------------------------------------------------- the RWMutex, step by step
\* The same goroutines with the calls of Lock, RLock, Unlock and RUnlock as
\* steps of their own. The state of the embedded sync.RWMutex is read off
\* the positions: who holds it, who has called Lock and waits.
WriterHolds ==
    \/ resetter = "locked"
    \/ \E q \in Queries, p \in Providers : att[q][p].pc = "locked"

WriterWaits ==
    \/ resetter = "locking"
    \/ \E q \in Queries, p \in Providers : att[q][p].pc = "locking"

Readers == {q \in Queries : qpc[q] = "rlocked"}

\* sync.RWMutex: Lock returns when no writer and no reader holds the lock.
CanLock == ~WriterHolds /\ Readers = {}

\* sync.RWMutex: RLock returns when no writer holds the lock and none has
\* called Lock and waits (a waiting writer keeps new readers out).
CanRLock == ~WriterHolds /\ ~WriterWaits

\* case <-t.C: the ticker fired; the goroutine of New calls c.Lock().
ResetTick ==
    /\ resetter = "running"
    /\ events < MaxEvents
    /\ events' = events + 1
    /\ resetter' = "locking"
    /\ UNCHANGED <<now, up, cache, stats, closing, closed, qvars>>

\* line 129: c.Lock() returns.
ResetLock ==
    /\ resetter = "locking"
    /\ CanLock
    /\ resetter' = "locked"
    /\ UNCHANGED <<now, up, events, cache, stats, closing, closed, qvars>>

\* A mutant of ResetUnlock: the goroutine waits for the stop signal while
\* it holds the lock, and unlocks after it.
ResetUnlockAfterStop ==
    /\ resetter = "locked"
    /\ closing > 0
    /\ stats' = EmptyMap
    /\ resetter' = "running"
    /\ UNCHANGED <<now, up, events, cache, closing, closed, qvars>>

\* lines 130-133: the records are deleted and the lock is released; the
\* goroutine is back at its select.
ResetUnlock ==
    /\ resetter = "locked"
    /\ stats' = EmptyMap
    /\ resetter' = "running"
    /\ UNCHANGED <<now, up, events, cache, closing, closed, qvars>>

\* Query is called with arguments r and calls c.RLock() (lines 160-163).
QueryCall(q, r) ==
    /\ qpc[q] = "idle"
    /\ \A o \in Queries : o < q => qpc[o] # "idle"
    /\ req' = [req EXCEPT ![q] = r]
    /\ qpc' = [qpc EXCEPT ![q] = "rlocking"]
    /\ UNCHANGED <<gvars, cancelled, urlsToQuery, seen, att, recv, firstError, ret, src, stored>>

\* line 163: c.RLock() returns.
QueryRLock(q) ==
    /\ qpc[q] = "rlocking"
    /\ CanRLock
    /\ qpc' = [qpc EXCEPT ![q] = "rlocked"]
    /\ UNCHANGED <<gvars, req, cancelled, urlsToQuery, seen, att, recv, firstError, ret, src, stored>>

\* lines 164-184: the selection, read from c.stats, and c.RUnlock().
QueryRUnlock(q) ==
    /\ qpc[q] = "rlocked"
    /\ \E sel \in Selections(stats) :
          urlsToQuery' = [urlsToQuery EXCEPT ![q] = sel]
    /\ seen' = [seen EXCEPT ![q] = stats]
    /\ qpc' = [qpc EXCEPT ![q] = "selected"]
    /\ UNCHANGED <<gvars, req, cancelled, att, recv, firstError, ret, src, stored>>

\* goQuery, line 231: c.Lock() is called.
AttemptLockCall(q, p) ==
    /\ att[q][p].pc = "returned"
    /\ att' = [att EXCEPT ![q][p].pc = "locking"]
    /\ UNCHANGED <<gvars, qpc, req, cancelled, urlsToQuery, seen, recv, firstError, ret, src, stored>>

\* goQuery, line 231: c.Lock() returns.
AttemptLock(q, p) ==
    /\ att[q][p].pc = "locking"
    /\ CanLock
    /\ att' = [att EXCEPT ![q][p].pc = "locked"]
    /\ UNCHANGED <<gvars, qpc, req, cancelled, urlsToQuery, seen, recv, firstError, ret, src, stored>>

\* goQuery, lines 232-240: the record is updated and the lock released; the
\* goroutine goes on to its send.
AttemptUnlock(q, p) ==
    /\ att[q][p].pc = "locked"
    /\ stats' = RecordAttempt(stats, p, att[q][p].err # <<>>)
    /\ att' = [att EXCEPT ![q][p].pc = "sending"]
    /\ UNCHANGED <<now, up, events, cache, resetter, closing, closed,
                   qpc, req, cancelled, urlsToQuery, seen, recv, firstError, ret, src, stored>>

\* ------------------------------------- c.cache, read by read, with EnableCache
\* fastQuery reads the field c.cache four times, with no lock: in the test of
\* line 192, in checkCache (line 222), in the test of line 207 and in
\* updateCache (line 286). Here each read is a step of its own, and
\* EnableCache writes the field at any moment. A read sees the pointer
\* written last (a pointer is written in one piece).

\* EnableCache(enable), called by another goroutine at any moment.
EnableCacheAnytime(enable) ==
    /\ events < MaxEvents
    /\ events' = events + 1
    /\ cache' = IF enable THEN <<EmptyMap>> ELSE <<>>
    /\ stored' = [q \in Queries |-> <<>>]
    /\ UNCHANGED <<now, up, stats, resetter, closing, closed,
                   qpc, req, cancelled, urlsToQuery, seen, att, recv, firstError, ret, src>>

\* fastQuery, lines 201-204: one goQuery per selected url.
Launched(q) ==
    [p \in Providers |->
        IF p \in urlsToQuery[q] THEN [NoAttempt EXCEPT !.pc = "inflight"] ELSE NoAttempt]

\* fastQuery, line 192: the test c.cache != nil. With nil the race starts;
\* otherwise checkCache is called.
CacheNilTest(q) ==
    /\ qpc[q] = "selected"
    /\ seen' = [seen EXCEPT ![q] = EmptyMap]
    /\ IF cache # <<>>
       THEN /\ qpc' = [qpc EXCEPT ![q] = "checking"]
            /\ UNCHANGED att
       ELSE /\ qpc' = [qpc EXCEPT ![q] = "collecting"]
            /\ att' = [att EXCEPT ![q] = Launched(q)]
    /\ UNCHANGED <<gvars, req, cancelled, urlsToQuery, recv, firstError, ret, src, stored>>

\* checkCache, line 222: c.cache is read again and Get is called on it. On
\* a nil *cache, Get locks the embedded RWMutex of a nil pointer: the
\* goroutine panics. Otherwise a hit returns and a miss starts the race.
CacheLookup(q) ==
    /\ qpc[q] = "checking"
    /\ IF cache = <<>>
       THEN /\ qpc' = [qpc EXCEPT ![q] = "panicked"]
            /\ UNCHANGED <<att, ret, src>>
       ELSE IF CacheGet(cache[1], CacheKey(req[q])) # <<>>
       THEN /\ ret' = [ret EXCEPT ![q] =
                         [rsp |-> CacheGet(cache[1], CacheKey(req[q])), err |-> <<>>]]
            /\ src' = [src EXCEPT ![q] = "cache"]
            /\ qpc' = [qpc EXCEPT ![q] = "done"]
            /\ UNCHANGED att
       ELSE /\ qpc' = [qpc EXCEPT ![q] = "collecting"]
            /\ att' = [att EXCEPT ![q] = Launched(q)]
            /\ UNCHANGED <<ret, src>>
    /\ UNCHANGED <<gvars, req, cancelled, urlsToQuery, seen, recv, firstError, stored>>

\* collectResponses receives the value of the goQuery of p; when that ends
\* the loop, the test of line 207 follows: with a nil error and c.cache not
\* nil, updateCache is called; otherwise fastQuery returns.
CollectThenTest(q, p) ==
    /\ qpc[q] = "collecting"
    /\ att[q][p].pc = "sending"
    /\ LET step == CollectStep(Len(recv[q]), firstError[q], ChanValue(att[q][p]),
                               Cardinality(urlsToQuery[q]))
       IN /\ firstError' = [firstError EXCEPT ![q] = step.firstError]
          /\ IF step.done
             THEN /\ ret' = [ret EXCEPT ![q] = [rsp |-> step.rsp, err |-> step.err]]
                  /\ src' = [src EXCEPT ![q] = "race"]
                  /\ qpc' = [qpc EXCEPT ![q] =
                               IF step.err = <<>> /\ cache # <<>> THEN "storing" ELSE "done"]
             ELSE UNCHANGED <<ret, src, qpc>>
    /\ att' = [att EXCEPT ![q][p].pc = "done"]
    /\ recv' = [recv EXCEPT ![q] = Append(@, p)]
    /\ UNCHANGED <<gvars, req, cancelled, urlsToQuery, seen, stored>>

\* updateCache, line 286: c.cache is read again and Set is called on it; on
\* a nil *cache the goroutine panics. Otherwise the Response is stored and
\* fastQuery returns.
CacheStore(q) ==
    /\ qpc[q] = "storing"
    /\ IF cache = <<>>
       THEN /\ qpc' = [qpc EXCEPT ![q] = "panicked"]
            /\ UNCHANGED <<cache, stored>>
       ELSE /\ qpc' = [qpc EXCEPT ![q] = "done"]
            /\ cache' = <<CacheSet(cache[1], CacheKey(req[q]), ret[q].rsp[1],
                                   CacheTTL(ret[q].rsp[1]))>>
            /\ stored' = [stored EXCEPT ![q] = <<now + CacheTTL(ret[q].rsp[1])>>]
    /\ UNCHANGED <<now, up, events, stats, resetter, closing, closed,
                   req, cancelled, urlsToQuery, seen, att, recv, firstError, ret, src>>

\* ------------------------------------------------------ the specification
Next ==
    \/ \E d \in TickSteps : Tick(d)
    \/ ResetStats
    \/ CloseCall
    \/ StopReceived
    \/ \E enable \in BOOLEAN : EnableCache(enable)
    \/ \E q \in Queries : CallerCancel(q)
    \/ \E q \in Queries, r \in Requests : Select(q, r)
    \/ \E q \in Queries : CacheHit(q)
    \/ \E q \in Queries : Launch(q)
    \/ \E q \in Queries, p \in Providers : AttemptReturn(q, p)
    \/ \E q \in Queries, p \in Providers : AttemptRecord(q, p)
    \/ \E q \in Queries, p \in Providers : Collect(q, p)

Spec == Init /\ [][Next]_vars

\* The goroutines the Go scheduler runs are weakly fair: a Query that has
\* selected goes on into fastQuery, a transport call returns (with its
\* result, on cancellation, or on the http client's timeout), a goQuery that
\* has its result takes the lock, collectResponses receives a value that is
\* being sent, and the goroutine of New takes a stop signal that is offered.
Fairness ==
    /\ WF_vars(StopReceived)
    /\ \A q \in Queries :
          /\ WF_vars(CacheHit(q))
          /\ WF_vars(Launch(q))
          /\ \A p \in Providers :
                /\ WF_vars(AttemptReturn(q, p))
                /\ WF_vars(AttemptRecord(q, p))
                /\ WF_vars(Collect(q, p))

\* The client with the cache left off, as New builds it: the steps of Next
\* that do not need a store.
NextNoCache ==
    \/ ResetStats
    \/ CloseCall
    \/ StopReceived
    \/ \E q \in Queries : CallerCancel(q)
    \/ \E q \in Queries, r \in Requests : Select(q, r)
    \/ \E q \in Queries : Launch(q)
    \/ \E q \in Queries, p \in Providers : AttemptReturn(q, p)
    \/ \E q \in Queries, p \in Providers : AttemptRecord(q, p)
    \/ \E q \in Queries, p \in Providers : Collect(q, p)

LiveSpec == Init /\ [][NextNoCache]_vars /\ Fairness

\* The client called with the wider set of requests, the cache switched on
\* or off between the calls; time, the ticker, Close and the callers'
\* cancellations are left out.
NextWide ==
    \/ \E enable \in BOOLEAN : EnableCache(enable)
    \/ \E q \in Queries, r \in WideRequests : Select(q, r)
    \/ \E q \in Queries : CacheHit(q)
    \/ \E q \in Queries : Launch(q)
    \/ \E q \in Queries, p \in Providers : AttemptReturn(q, p)
    \/ \E q \in Queries, p \in Providers : AttemptRecord(q, p)
    \/ \E q \in Queries, p \in Providers : Collect(q, p)

WideSpec == Init /\ [][NextWide]_vars

\* The race by itself: fastQuery called with every urls map, on the client
\* as New builds it (no cache), with callers that may cancel.
NextRace ==
    \/ \E q \in Queries, r \in Requests, urls \in SUBSET Providers : FastQuery(q, r, urls)
    \/ \E q \in Queries : CallerCancel(q)
    \/ \E q \in Queries : Launch(q)
    \/ \E q \in Queries, p \in Providers : AttemptReturn(q, p)
    \/ \E q \in Queries, p \in Providers : AttemptRecord(q, p)
    \/ \E q \in Queries, p \in Providers : Collect(q, p)

RaceSpec == Init /\ [][NextRace]_vars

\* The client called with the requests whose answers differ in their TTL,
\* while time passes and the cache is switched on or off between the calls.
NextTtl ==
    \/ \E d \in TickSteps : Tick(d)
    \/ \E enable \in BOOLEAN : EnableCache(enable)
    \/ \E q \in Queries, r \in TtlRequests : Select(q, r)
    \/ \E q \in Queries : CacheHit(q)
    \/ \E q \in Queries : Launch(q)
    \/ \E q \in Queries, p \in Providers : AttemptReturn(q, p)
    \/ \E q \in Queries, p \in Providers : AttemptRecord(q, p)
    \/ \E q \in Queries, p \in Providers : Collect(q, p)

TtlSpec == Init /\ [][NextTtl]_vars

\* The client with EnableCache called while Query calls are under way.
NextToggle ==
    \/ \E enable \in BOOLEAN : EnableCacheAnytime(enable)
    \/ \E q \in Queries, r \in Requests : Select(q, r)
    \/ \E q \in Queries : CacheNilTest(q)
    \/ \E q \in Queries : CacheLookup(q)
    \/ \E q \in Queries, p \in Providers : AttemptReturn(q, p)
    \/ \E q \in Queries, p \in Providers : AttemptRecord(q, p)
    \/ \E q \in Queries, p \in Providers : CollectThenTest(q, p)
    \/ \E q \in Queries : CacheStore(q)

ToggleSpec == Init /\ [][NextToggle]_vars

\* The client as New builds it, with the steps of the RWMutex.
NextLock ==
    \/ ResetTick
    \/ ResetLock
    \/ ResetUnlock
    \/ \E q \in Queries, r \in Requests : QueryCall(q, r)
    \/ \E q \in Queries : QueryRLock(q)
    \/ \E q \in Queries : QueryRUnlock(q)
    \/ \E q \in Queries : Launch(q)
    \/ \E q \in Queries, p \in Providers : AttemptReturn(q, p)
    \/ \E q \in Queries, p \in Providers : AttemptLockCall(q, p)
    \/ \E q \in Queries, p \in Providers : AttemptLock(q, p)
    \/ \E q \in Queries, p \in Providers : AttemptUnlock(q, p)
    \/ \E q \in Queries, p \in Providers : Collect(q, p)

\* Every goroutine that can take its next step takes it; a goroutine that
\* waits in Lock or RLock gets the lock if the lock stays free for it.
LockFairness ==
    /\ WF_vars(ResetLock)
    /\ WF_vars(ResetUnlock)
    /\ \A q \in Queries :
          /\ WF_vars(QueryRLock(q))
          /\ WF_vars(QueryRUnlock(q))
          /\ WF_vars(Launch(q))
          /\ \A p \in Providers :
                /\ WF_vars(AttemptReturn(q, p))
                /\ WF_vars(AttemptLockCall(q, p))
                /\ WF_vars(AttemptLock(q, p))
                /\ WF_vars(AttemptUnlock(q, p))
                /\ WF_vars(Collect(q, p))

LockSpec == Init /\ [][NextLock]_vars /\ LockFairness

\* ============================================================== the claims
\* Query q has returned from a race (not from the cache).
Raced(q) == qpc[q] = "done" /\ src[q] = "race"

\* The goQuery of (q, p) has its result from c.query.
Completed(q, p) == att[q][p].pc \in {"returned", "sending", "done"}

Succeeded(q, p) == Completed(q, p) /\ att[q][p].err = <<>>

Failed(q, p) == Completed(q, p) /\ att[q][p].err # <<>>

\* The provider whose value arrived last at collectResponses.
LastArrival(q) == recv[q][Len(recv[q])]

\* C1: when a Query has returned from a race in which some attempt
\* completed with a success, it returned a nil error and the Response of an
\* attempt of this race, the first success to arrive: every value that
\* arrived before it was an error.
C1_FirstSuccessWins ==
    \A q \in Queries :
        (Raced(q) /\ \E p \in urlsToQuery[q] : Succeeded(q, p)) =>
            /\ ret[q].err = <<>>
            /\ recv[q] # <<>>
            /\ LastArrival(q) \in urlsToQuery[q]
            /\ Succeeded(q, LastArrival(q))
            /\ ret[q].rsp = att[q][LastArrival(q)].rsp
            /\ ret[q].rsp[1].ptr = <<q, LastArrival(q)>>
            /\ \A i \in 1 .. (Len(recv[q]) - 1) : Failed(q, recv[q][i])

\* C1 happens: a race is won by the provider of the highest index after an
\* error of another provider has arrived.
C1_Witness ==
    \E q \in Queries :
        /\ Raced(q)
        /\ ret[q].err = <<>>
        /\ Len(recv[q]) >= 2
        /\ Failed(q, recv[q][1])
        /\ LastArrival(q) = NumProviders - 1

\* C2: when a Query has returned from a race in which every attempt launched
\* completed with an error, it returned a nil Response and the error of the
\* attempt whose value arrived first.
C2_TotalFailure ==
    \A q \in Queries :
        (Raced(q) /\ \A p \in urlsToQuery[q] : Failed(q, p)) =>
            /\ ret[q].rsp = <<>>
            /\ ret[q].err # <<>>
            /\ recv[q] # <<>>
            /\ ret[q].err = att[q][recv[q][1]].err

\* C2 happens: all attempts of a race over several providers failed, and the
\* error returned is not the one of the lowest index.
C2_Witness ==
    \E q \in Queries :
        /\ Raced(q)
        /\ Cardinality(urlsToQuery[q]) >= 2
        /\ \A p \in urlsToQuery[q] : Failed(q, p)
        /\ ret[q].err # <<>>
        /\ ret[q].err[1].provider # 0

\* Query q takes its step from the selection into fastQuery.
EntersFastQuery(q) == qpc[q] = "selected" /\ qpc'[q] # "selected"

\* The queries other than q that put an entry in the current store under the
\* cache key of q.
StoredUnderKeyOf(q) ==
    {o \in Queries \ {q} : stored[o] # <<>> /\ CacheKey(req[o]) = CacheKey(req[q])}

C4_CacheHitBypassesRace ==
    /\ [](\A q \in Queries :
            src[q] = "cache" => \A p \in Providers : att[q][p].pc = "none")
    /\ [][\A q \in Queries :
            (src[q] # "cache" /\ src'[q] = "cache") => (stats' = stats /\ att' = att)]_vars

\* C4 happens: a Query was served from the cache while the tracker held the
\* records of the race that filled it.
C4_Witness ==
    \E q \in Queries :
        /\ qpc[q] = "done" /\ src[q] = "cache"
        /\ urlsToQuery[q] # {}
        /\ DOMAIN stats # {}

\* The store holds, under the key of q, an entry that has not expired.
LiveEntry(q) ==
    /\ cache # <<>>
    /\ CacheKey(req[q]) \in DOMAIN cache[1]
    /\ now <= cache[1][CacheKey(req[q])].expiration

\* C5: a Query that enters fastQuery is served from the cache only when the
\* store holds an entry under its key whose expiration is not before now,
\* and is served that entry's value; in every other case (no store, no
\* entry, now > expiration) it starts one attempt per selected provider.
\* The store is left as it is: an expired entry is not deleted.
C5_CacheExpiry ==
    [][\A q \in Queries :
          EntersFastQuery(q) =>
             /\ cache' = cache
             /\ IF LiveEntry(q)
                THEN /\ src'[q] = "cache"
                     /\ ret'[q].rsp = <<cache[1][CacheKey(req[q])].value>>
                ELSE /\ qpc'[q] = "collecting"
                     /\ src'[q] = "none"
                     /\ \A p \in urlsToQuery[q] : att'[q][p].pc = "inflight"]_vars

\* C5 happens: a race is under way for a key whose entry is in the store,
\* expired and not deleted.
C5_Witness ==
    \E q \in Queries :
        /\ qpc[q] = "collecting"
        /\ cache # <<>>
        /\ CacheKey(req[q]) \in DOMAIN cache[1]
        /\ now > cache[1][CacheKey(req[q])].expiration
        /\ \A p \in urlsToQuery[q] : att[q][p].pc = "inflight"

\* C6: a Query whose caller did not cancel returns an error only if every
\* configured provider is failing.
C6_AutomaticFailover ==
    \A q \in Queries :
        (qpc[q] = "done" /\ ret[q].err # <<>> /\ ~cancelled[q]) =>
            \A p \in Providers : ~up[p]

\* C7: a Query that selected while the tracker held no record selected all
\* the configured providers.
C7_SelectAllWhenEmpty ==
    \A q \in Queries :
        (qpc[q] = "selected" /\ DOMAIN seen[q] = {}) => urlsToQuery[q] = Providers

\* C7 happens after a reset: a Query has selected all the providers on an
\* empty tracker after another Query had returned from its race (so that an
\* attempt had been recorded) and the ticker had fired.
C7_Witness ==
    \E q, o \in Queries :
        /\ q # o
        /\ qpc[q] = "selected" /\ DOMAIN seen[q] = {}
        /\ urlsToQuery[q] = Providers
        /\ Raced(o)
        /\ DOMAIN stats = {}
        /\ events > 0

\* The records of st have pairwise distinct failure rates.
DistinctRates(st) ==
    \A j, k \in DOMAIN st : j # k => st[j].failureRate # st[k].failureRate

\* C8: a Query that selected while the tracker held the records of two or
\* more providers, with pairwise distinct failure rates, selected one
\* provider, the one of the lowest rate.
C8_SelectLowestRate ==
    \A q \in Queries :
        (qpc[q] = "selected" /\ Cardinality(DOMAIN seen[q]) >= 2 /\ DistinctRates(seen[q])) =>
            \E k \in DOMAIN seen[q] :
                /\ urlsToQuery[q] = {k}
                /\ \A j \in DOMAIN seen[q] \ {k} :
                       RateLess(seen[q][k].failureRate, seen[q][j].failureRate)

\* C8 happens: the provider selected is not the one of the lowest index.
C8_Witness ==
    \E q \in Queries :
        /\ qpc[q] = "selected"
        /\ Cardinality(DOMAIN seen[q]) >= 2
        /\ DistinctRates(seen[q])
        /\ 0 \in DOMAIN seen[q]
        /\ 0 \notin urlsToQuery[q]

\* The caller of q has cancelled while the race is on and no attempt has its
\* result yet.
CancelledBeforeAnyResponse(q) ==
    /\ qpc[q] = "collecting"
    /\ cancelled[q]
    /\ \A p \in urlsToQuery[q] : att[q][p].pc = "inflight"

\* Query q has returned no Response and an error that comes from the
\* cancellation, every attempt of its race having ended with an error.
ReturnedCanceled(q) ==
    /\ qpc[q] = "done"
    /\ ret[q].rsp = <<>>
    /\ ret[q].err # <<>>
    /\ ret[q].err[1].kind = "canceled"
    /\ \A p \in urlsToQuery[q] : Failed(q, p)

\* C9: an attempt whose transport call returns after the caller cancelled
\* ends with an error; and from a state in which the caller has cancelled
\* before any provider responded, the Query eventually returns a
\* cancellation error and no Response, every attempt having ended with an
\* error.
C9_CallerCancellation ==
    /\ [][\A q \in Queries, p \in Providers :
            (cancelled[q] /\ att[q][p].pc = "inflight" /\ att'[q][p].pc = "returned")
            => att'[q][p].err # <<>>]_vars
    /\ \A q \in Queries : CancelledBeforeAnyResponse(q) ~> ReturnedCanceled(q)

\* C9 happens: a cancelled race over all providers, one of which answers,
\* has returned the cancellation error.
C9_Witness ==
    \E q \in Queries :
        /\ cancelled[q]
        /\ ReturnedCanceled(q)
        /\ urlsToQuery[q] = Providers
        /\ \A p \in Providers : att[q][p].err[1].kind = "canceled"
        /\ \E p \in Providers : up[p]

\* C10: a Close that is waiting while the goroutine of New runs eventually
\* returns; once a Close has returned the goroutine has ended, and no step
\* removes a record from the tracker any more.
C10_CloseStopsReset ==
    /\ (closing > 0 /\ resetter = "running") ~> (closed > 0)
    /\ [](closed > 0 => resetter = "stopped")
    /\ [][closed > 0 => DOMAIN stats \subseteq DOMAIN stats']_vars

\* C10 happens: Close has returned, the tracker holds a record and the
\* ticker may still fire.
C10_Witness ==
    /\ closed > 0
    /\ DOMAIN stats # {}
    /\ events < MaxEvents

\* C11: a Close that is waiting on its send can be received: while a call
\* of Close is blocked on c.stopc <- true, the receive of the goroutine of
\* New is possible. (Once that goroutine has returned, nothing receives on
\* stopc any more, so a Close that waits then never returns.)
C11_SecondCloseReturns ==
    closing > 0 => ENABLED StopReceived

\* Query q has returned the error of a DNS response of nonzero Status.
ReturnedDnsError(q) ==
    /\ Raced(q)
    /\ ret[q].err # <<>>
    /\ ret[q].err[1].kind = "dns"

\* C12: an attempt whose DNS response has a nonzero Status ends with an
\* error, and a Query that returns that error returns with it the Response
\* the attempt decoded: its Response is not nil and is the one of the
\* attempt whose error it returns.
C12_UpstreamErrorSurfaced ==
    \A q \in Queries :
        /\ \A p \in Providers :
              (Completed(q, p) /\ att[q][p].rsp # <<>> /\ att[q][p].rsp[1].Status # 0)
                  => att[q][p].err # <<>>
        /\ ReturnedDnsError(q) =>
              /\ ret[q].rsp # <<>>
              /\ ret[q].rsp = att[q][ret[q].err[1].provider].rsp

Normalised(r) == [d |-> TrimSpace(r.d), t |-> TrimSpace(r.t), s |-> TrimSpace(r.s)]

\* The queries other than q that put an entry in the current store for a
\* request that differs from the one of q by leading or trailing
\* whitespace at most.
StoredForSameRequest(q) ==
    {o \in Queries \ {q} : stored[o] # <<>> /\ Normalised(req[o]) = Normalised(req[q])}

\* C14: when a Query enters fastQuery while an earlier Query, whose domain,
\* type and subnet differ from its own by leading or trailing whitespace
\* only, has stored its Response and that entry has not expired, the Query
\* is served that Response from the cache.
C14_FingerprintNormalised ==
    [][\A q \in Queries :
          (/\ EntersFastQuery(q)
           /\ StoredForSameRequest(q) # {}
           /\ \A o \in StoredForSameRequest(q) : now <= stored[o][1])
          => /\ src'[q] = "cache"
             /\ \E o \in StoredForSameRequest(q) : ret'[q].rsp = ret[o].rsp]_vars

\* C15: two Query calls whose (domain, type, subnet) differ, by more than
\* the whitespace around a field, have different cache keys; and a Query
\* served from the cache gets a Response that was built for its own domain,
\* type and subnet.
C15_FingerprintSeparation ==
    \A q \in Queries :
        /\ \A o \in Queries :
              (qpc[q] # "idle" /\ qpc[o] # "idle" /\ Normalised(req[q]) # Normalised(req[o]))
                  => CacheKey(req[q]) # CacheKey(req[o])
        /\ (qpc[q] = "done" /\ src[q] = "cache")
              => Normalised(ret[q].rsp[1].Question) = Normalised(req[q])

\* The counts of provider k in the tracker st, 0 when it holds no record.
AttemptCount(st, k) == IF k \in DOMAIN st THEN st[k].attemptCount ELSE 0

FailureCount(st, k) == IF k \in DOMAIN st THEN st[k].failureCount ELSE 0

\* The positions of a goQuery goroutine, in the order it goes through them.
AttemptOrder(pc) ==
    CASE pc = "none" -> 0 [] pc = "inflight" -> 1 [] pc = "returned" -> 2
      [] pc = "sending" -> 3 [] pc = "done" -> 4

\* The step in which the goQuery of (q, p) goes through lines 231-240.
RecordStep(q, p) == att[q][p].pc = "returned" /\ att'[q][p].pc = "sending"

\* C16: every attempt launched is recorded exactly once. A goQuery goes
\* through its positions in order; the step that takes it through the
\* critical section adds 1 to the attemptCount of its provider, and 1 to
\* its failureCount exactly when the attempt ended with an error; the
\* records change in no other step but a reset; and in the end no attempt
\* that was launched is left short of that step, whether its Query has
\* returned or not.
C16_ExactlyOnceRecording ==
    /\ [][/\ \A q \in Queries, p \in Providers :
              /\ att'[q][p].pc # att[q][p].pc =>
                    AttemptOrder(att'[q][p].pc) = AttemptOrder(att[q][p].pc) + 1
              /\ RecordStep(q, p) =>
                    /\ AttemptCount(stats', p) = AttemptCount(stats, p) + 1
                    /\ FailureCount(stats', p) =
                           FailureCount(stats, p) + (IF att[q][p].err # <<>> THEN 1 ELSE 0)
                    /\ \A k \in Providers \ {p} :
                           /\ AttemptCount(stats', k) = AttemptCount(stats, k)
                           /\ FailureCount(stats', k) = FailureCount(stats, k)
          /\ stats' # stats =>
                \/ stats' = EmptyMap
                \/ Cardinality({qp \in Queries \X Providers : RecordStep(qp[1], qp[2])}) = 1]_vars
    /\ <>[](\A q \in Queries, p \in Providers : att[q][p].pc \notin {"inflight", "returned"})

\* C16 happens: an attempt that was cancelled because another one had won
\* the race has been recorded, as a failure, after its Query returned.
C16_Witness ==
    \E q \in Queries, p \in Providers :
        /\ Raced(q) /\ ret[q].err = <<>>
        /\ att[q][p].pc = "sending"
        /\ att[q][p].err # <<>>
        /\ att[q][p].err[1].kind = "canceled"
        /\ FailureCount(stats, p) >= 1
        /\ ~cancelled[q]

\* The attempts at provider p that have been through the critical section
\* of goQuery, and those of them that ended with an error.
RecordedAttempts(p) == {q \in Queries : att[q][p].pc \in {"sending", "done"}}

RecordedFailures(p) == {q \in RecordedAttempts(p) : att[q][p].err # <<>>}

\* C17: in every state (the critical sections are single steps, so every
\* state is one outside the lock) every record of the tracker has
\* attemptCount >= 1, 0 <= failureCount <= attemptCount and a failureRate
\* equal to 100 * failureCount / attemptCount, between 0 and 100; and as
\* long as nothing else has happened to the client (no reset), the record
\* of a provider counts the N attempts recorded for it and the f of them
\* that failed, so that its rate is (f / N) * 100.
C17_RecordInvariant ==
    /\ \A k \in DOMAIN stats :
          /\ k \in Providers
          /\ stats[k].attemptCount >= 1
          /\ 0 <= stats[k].failureCount
          /\ stats[k].failureCount <= stats[k].attemptCount
          /\ stats[k].failureRate = Rate(stats[k].failureCount, stats[k].attemptCount)
          /\ stats[k].failureRate[1] * stats[k].attemptCount
                 = 100 * stats[k].failureCount * stats[k].failureRate[2]
          /\ ~RateLess(stats[k].failureRate, <<0, 1>>)
          /\ ~RateLess(<<100, 1>>, stats[k].failureRate)
    /\ events = 0 =>
          \A p \in Providers :
              /\ AttemptCount(stats, p) = Cardinality(RecordedAttempts(p))
              /\ FailureCount(stats, p) = Cardinality(RecordedFailures(p))
              /\ p \in DOMAIN stats <=> RecordedAttempts(p) # {}

\* C17 happens: with no reset, a provider has two recorded attempts, one of
\* which failed, and its rate is 50.
C17_Witness ==
    \E p \in Providers :
        /\ events = 0
        /\ p \in DOMAIN stats
        /\ Cardinality(RecordedAttempts(p)) = 2
        /\ Cardinality(RecordedFailures(p)) = 1
        /\ stats[p].failureRate = <<50, 1>>

\* C18: a Query that selected fewer than all the configured providers read
\* a tracker that held a record of every configured provider (each had an
\* attempt recorded since the last reset).
C18_FullSamplingBeforeBias ==
    \A q \in Queries :
        (qpc[q] = "selected" /\ urlsToQuery[q] # Providers) => DOMAIN seen[q] = Providers

\* C19: no attempt is left blocked on the delivery of its result: while a
\* goQuery is at its send on r, the collectResponses of its race is still
\* receiving from r. (r is unbuffered and has no other receiver, so a send
\* that starts after collectResponses has returned never completes.)
C19_NoTaskLeak ==
    \A q \in Queries, p \in Providers :
        att[q][p].pc = "sending" => qpc[q] = "collecting"

\* The goroutines that hold the RWMutex for writing.
WriteHolders ==
    (IF resetter = "locked" THEN {<<"reset">>} ELSE {})
        \cup {qp \in Queries \X Providers : att[qp[1]][qp[2]].pc = "locked"}

\* No goroutine is in Lock, in RLock or in a critical section.
LockQuiet ==
    /\ resetter \notin {"locking", "locked"}
    /\ \A q \in Queries : qpc[q] \notin {"rlocking", "rlocked"}
    /\ \A q \in Queries, p \in Providers : att[q][p].pc \notin {"locking", "locked"}

\* C20: the lock is held by one writer or by readers, never both; a
\* goroutine that holds it can always take the step that releases it, so
\* the reset, the selection and the recording wait for nothing while they
\* hold it; the reset's critical section changes the records and nothing
\* else; and every run comes to a point after which no goroutine waits for
\* the lock or holds it.
C20_TrackerDeadlockFree ==
    /\ [](/\ Cardinality(WriteHolders) <= 1
          /\ WriteHolders # {} => Readers = {}
          /\ resetter = "locked" => ENABLED ResetUnlock
          /\ \A q \in Queries : qpc[q] = "rlocked" => ENABLED QueryRUnlock(q)
          /\ \A q \in Queries, p \in Providers :
                att[q][p].pc = "locked" => ENABLED AttemptUnlock(q, p))
    /\ [][resetter = "locked" =>
            \/ UNCHANGED <<resetter, stats>>
            \/ (resetter' = "running" /\ stats' = EmptyMap
                   /\ UNCHANGED <<now, up, events, cache, closing, closed, qvars>>)]_vars
    /\ <>[]LockQuiet

\* C20 happens: the reset and an attempt both wait in Lock while a Query
\* holds the lock for reading.
C20_Witness ==
    /\ resetter = "locking"
    /\ \E q \in Queries, p \in Providers : att[q][p].pc = "locking"
    /\ \E q \in Queries : qpc[q] = "rlocked"

\* max(ttl, 1)
TtlFloor(ttl) == IF ttl >= 1 THEN ttl ELSE 1

\* C21: the step in which a Query stores its Response creates, under the
\* key of the Query, an entry that expires max(ttl, 1) seconds after the
\* time of the step, where ttl is the TTL of the first answer of the
\* Response, or 30 when it has no answer.
C21_CacheTTLFloor ==
    [][\A q \in Queries :
          (stored[q] = <<>> /\ stored'[q] # <<>>) =>
              /\ cache' # <<>>
              /\ CacheKey(req[q]) \in DOMAIN cache'[1]
              /\ cache'[1][CacheKey(req[q])].value = ret'[q].rsp[1]
              /\ cache'[1][CacheKey(req[q])].expiration
                     = now + TtlFloor(IF Len(ret'[q].rsp[1].Answer) > 0
                                      THEN ret'[q].rsp[1].Answer[1] ELSE 30)]_vars

\* C22: whatever the moments at which EnableCache is called, no Query calls
\* Get or Set on a nil store: a Query that goes on to checkCache or to
\* updateCache finds a store there, and no Query panics.
C22_CacheToggleSafe ==
    \A q \in Queries : qpc[q] # "panicked"

====
